---- MODULE Spec2Model ----
(***************************************************************************)
(* Model of hexrdgui's calibration tree item models                        *)
(* (src/hexrdgui/calibration/tree_item_models.py).                         *)
(*                                                                         *)
(* The configuration mapping is a two-level dictionary: a parent path (a   *)
(* row of the tree) holds the suffix entries `_value`, `_vary`, `_min`,    *)
(* `_max`, `_delta` and, for a parameterized row, the `_param` object.     *)
(* An entry of a dictionary is <<>> when the key is absent and <<v>> when  *)
(* the key is present with value v.  Numbers are integers (a fixed-point   *)
(* scale of the floats the program stores).                                *)
(***************************************************************************)
EXTENDS Integers, Sequences, FiniteSets, TLC

\* The calibration tree model: the concrete class, the configuration mapping,
\* the `_param` objects, the notifications of the last call and the last call.
VARIABLES variant, config, param, emitted, call

treeVars == <<variant, config, param, emitted, call>>

\* The entries of the mapping and the attributes of the param objects that
\* hold a value that is not a number.
VARIABLE nonnumeric

\* A call of data() of a calibration tree model: the item, the index, the
\* role and what the call returned.
VARIABLE dataq

\* FitGrainsToleranceModel: its three lists, the Qt and data_modified
\* notifications of the last call, and the last call.
VARIABLES tth_tolerances, eta_tolerances, omega_tolerances, fitlog, fitcall

fitVars == <<tth_tolerances, eta_tolerances, omega_tolerances, fitlog, fitcall>>

\* BlitManager: the artists collection, the cached background, the id of the
\* draw_event connection, the artists attached to the figure, the calls made
\* on the canvas and on artists by the last call, and the last call.
VARIABLES artists, bg, cid, figure, blitlog, blitcall

blitVars == <<artists, bg, cid, figure, blitlog, blitcall>>

\* HEDMCalibrationRunner: its attributes and dialogs, the steps of the last
\* handler and the last handler.
VARIABLES runner, runlog, runcall

runnerVars == <<runner, runlog, runcall>>

vars == <<treeVars, nonnumeric, dataq, fitVars, blitVars, runnerVars>>

\* Largest magnitude of a number written through the model.
MaxVal == 1

\* Largest magnitude of a bound: a write that would shift a bound further
\* away is not taken.
MaxBound == 2

Vals == (0 - MaxVal)..MaxVal

BoundVals == (0 - MaxBound)..MaxBound

\* A delta is the half-width of a symmetric range
DeltaVals == 0..MaxVal

\* The parent paths of the configuration mapping.  "p" carries a `_param`
\* object, "q" is a plain row without one.
Rows == {"p", "q"}

ParamRows == {"p"}

Suffixes == {"_value", "_vary", "_min", "_max", "_delta"}

NumericSuffixes == {"_value", "_min", "_max", "_delta"}

Variants == {"Default", "Delta"}

Range(s) == {s[i] : i \in DOMAIN s}

\* list(seq).index(x), counted from 0 as in Python
IndexOf(s, x) == (CHOOSE i \in DOMAIN s : s[i] = x /\ \A j \in 1..(i - 1) : s[j] # x) - 1

\* COLUMNS.values() of the two concrete models, in column order.  Column 0 is
\* the Key column, so COLUMNS(v)[c] is the suffix shown in column c.
COLUMNS(v) ==
    IF v = "Default" THEN <<"_value", "_vary", "_min", "_max">>
                     ELSE <<"_value", "_vary", "_delta">>

\* path[-1].removeprefix('_')
Attribute(key) ==
    CASE key = "_value" -> "value"
      [] key = "_vary"  -> "vary"
      [] key = "_min"   -> "min"
      [] key = "_max"   -> "max"
      [] key = "_delta" -> "delta"

\* getattr(param, name): <<>> when the object has no such attribute
GetAttr(p, name) ==
    IF name = "delta" THEN p.delta ELSE <<p[name]>>

\* setattr(param, attribute, value)
SetAttr(p, name, value) ==
    IF name = "delta" THEN [p EXCEPT !.delta = <<value>>]
                      ELSE [p EXCEPT ![name] = value]

\* The base model's set_config_val: write value at path in the mapping.
BaseSetConfigVal(cfg, path, value) ==
    [cfg EXCEPT ![path[1]][path[2]] = <<value>>]

\* What an observer reacting synchronously to a notification reads: the
\* parameter object's value and the mapping's `_value` entry of the row.
Observe(sig, row, col, data, cfg, prm) ==
    [sig |-> sig, row |-> row, col |-> col, data |-> data,
     pv |-> IF row \in DOMAIN prm THEN <<prm[row].value>> ELSE <<>>,
     cv |-> cfg[row]["_value"]]

\* line 35 with the lower bound itself counted as outside the range
OutOfRange_strict(value, p) == value <= p.min \/ value > p.max

\* line 35: value < param.min or value > param.max
OutOfRange(value, p) == value < p.min \/ value > p.max

\* line 38 taking the distance to the other bound
ShiftedMin_swapped(value, p) == value - (p.max - p.value)

\* line 38
ShiftedMin(value, p) == value - (p.value - p.min)

\* line 39 taking the distance to the other bound
ShiftedMax_swapped(value, p) == value + (p.value - p.min)

\* line 39 (param.min is already reassigned, param.max and param.value are not)
ShiftedMax(value, p) == value + (p.max - p.value)

\* lines 38-39
Recentre(p, value) ==
    [p EXCEPT !.min = ShiftedMin(value, p), !.max = ShiftedMax(value, p)]

\* lines 40-41 without the write of `_max`
PersistBounds_minonly(cfg, row, p) ==
    BaseSetConfigVal(cfg, <<row, "_min">>, p.min)

\* lines 40-41 followed by a write of the param's value to `_value`
PersistBounds_overvalue(cfg, row, p) ==
    BaseSetConfigVal(
        BaseSetConfigVal(BaseSetConfigVal(cfg, <<row, "_min">>, p.min),
                         <<row, "_max">>, p.max),
        <<row, "_value">>, p.value)

\* lines 40-41: the two base writes of the shifted bounds
PersistBounds(cfg, row, p) ==
    BaseSetConfigVal(BaseSetConfigVal(cfg, <<row, "_min">>, p.min),
                     <<row, "_max">>, p.max)

\* lines 44-47 without the offset of the Key column
RefreshColumns_nokey(v) ==
    IF "_min" \in Range(COLUMNS(v))
    THEN <<IndexOf(COLUMNS(v), "_min"), IndexOf(COLUMNS(v), "_max")>>
    ELSE <<>>

\* lines 44-47: the columns whose cells are refreshed, in loop order
RefreshColumns(v) ==
    IF "_min" \in Range(COLUMNS(v))
    THEN <<IndexOf(COLUMNS(v), "_min") + 1, IndexOf(COLUMNS(v), "_max") + 1>>
    ELSE <<>>

\* lines 48-51: item.set_data(index.column(), getattr(param, name[1:])) and
\* dataChanged.emit(index, index), for the cell of column col
RefreshCell(v, row, col, cfg, prm) ==
    Observe("dataChanged", row, col,
            GetAttr(prm[row], Attribute(COLUMNS(v)[col])), cfg, prm)

NoCall ==
    [op |-> "none", row |-> "p", key |-> "_value", value |-> <<>>,
     result |-> "none", err |-> <<>>, oldparam |-> <<>>,
     oldconfig |-> [k \in Suffixes |-> <<>>]]

\* The record of a call: its arguments and the row as it was before the call
CallRecord(row, key, value) ==
    [op |-> "set_config_val", row |-> row, key |-> key,
     value |-> <<value>>, result |-> "ok", err |-> <<>>,
     oldparam |-> IF row \in DOMAIN param THEN <<param[row]>> ELSE <<>>,
     oldconfig |-> config[row]]

\* line 28 with the KeyError swallowed
MissingParameter_swallow(rec, param_path) == rec

\* line 28: raise Exception('Failed to set parameter!', param_path)
MissingParameter(rec, param_path) ==
    [rec EXCEPT !.result = "raised", !.err = param_path]

\* lines 22-28 with the lookup of the `_param` object done before the write
RaiseMissing_checkfirst(row, key, value) ==
    /\ emitted' = <<>>
    /\ call' = MissingParameter(CallRecord(row, key, value), <<row, "_param">>)
    /\ UNCHANGED <<variant, config, param>>

\* lines 22-28, config_val(param_path) raising KeyError: the base write has
\* been done when the lookup of the `_param` object fails
RaiseMissing(row, key, value) ==
    LET cfg1 == BaseSetConfigVal(config, <<row, key>>, value) IN
    /\ config' = cfg1
    /\ emitted' = <<Observe("dict_modified", row, 0, <<>>, cfg1, param)>>
    /\ call' = MissingParameter(CallRecord(row, key, value), <<row, "_param">>)
    /\ UNCHANGED <<variant, param>>

\* lines 22, 33-53 with the condition of line 35 true: shift the bounds,
\* persist them, notify, then set the value on the param
WriteRecentred(row, key, value) ==
    LET cfg1 == BaseSetConfigVal(config, <<row, key>>, value)
        p1   == Recentre(param[row], value)
        prm1 == [param EXCEPT ![row] = p1]
        cfg2 == BaseSetConfigVal(cfg1, <<row, "_min">>, p1.min)
        cfg3 == PersistBounds(cfg1, row, p1)
        cols == RefreshColumns(variant)
    IN
    /\ p1.min \in BoundVals /\ p1.max \in BoundVals
    /\ config' = cfg3
    /\ emitted' = <<Observe("dict_modified", row, 0, <<>>, cfg1, param),
                    Observe("dict_modified", row, 0, <<>>, cfg2, prm1),
                    Observe("dict_modified", row, 0, <<>>, cfg3, prm1),
                    Observe("dict_modified", row, 0, <<>>, cfg3, prm1)>>
                  \o [i \in DOMAIN cols |->
                        RefreshCell(variant, row, cols[i], cfg3, prm1)]
    /\ param' = [param EXCEPT ![row] = SetAttr(p1, Attribute(key), value)]
    /\ call' = CallRecord(row, key, value)
    /\ UNCHANGED variant

\* lines 22, 31-33, 53: a write that shifts no bound
WritePlain(row, key, value) ==
    LET cfg1 == BaseSetConfigVal(config, <<row, key>>, value) IN
    /\ config' = cfg1
    /\ emitted' = <<Observe("dict_modified", row, 0, <<>>, cfg1, param)>>
    /\ param' = [param EXCEPT ![row] = SetAttr(param[row], Attribute(key), value)]
    /\ call' = CallRecord(row, key, value)
    /\ UNCHANGED variant

\* CalibrationTreeItemModel.set_config_val(path, value), path = [row, key]
set_config_val(row, key, value) ==
    IF row \notin DOMAIN param
    THEN RaiseMissing(row, key, value)
    ELSE IF Attribute(key) = "value" /\ OutOfRange(value, param[row])
         THEN WriteRecentred(row, key, value)
         ELSE WritePlain(row, key, value)

\* The values a caller writes to a key
InputsOf(key) ==
    IF key = "_vary" THEN BOOLEAN ELSE IF key = "_delta" THEN DeltaVals ELSE Vals

\* The parameter objects the application attaches: min <= value <= max
InitParams(v) ==
    {[value |-> x, min |-> lo, max |-> hi, vary |-> b, delta |-> d] :
        x \in Vals, lo \in Vals, hi \in Vals, b \in BOOLEAN,
        d \in IF v = "Delta" THEN {<<1>>} ELSE {<<>>}}

\* The row of the mapping the application builds from a parameter object
RowOfParam(v, p) ==
    [k \in Suffixes |->
        IF k \in Range(COLUMNS(v)) THEN GetAttr(p, Attribute(k)) ELSE <<>>]

PlainRow ==
    [k \in Suffixes |->
        IF k = "_value" THEN <<0>> ELSE IF k = "_vary" THEN <<FALSE>> ELSE <<>>]

TreeInit ==
    /\ variant \in Variants
    /\ \E p \in InitParams(variant) :
         /\ p.min <= p.value /\ p.value <= p.max
         /\ param = [r \in ParamRows |-> p]
         /\ config = [r \in Rows |->
                        IF r \in ParamRows THEN RowOfParam(variant, p)
                                           ELSE PlainRow]
    /\ emitted = <<>>
    /\ call = NoCall

\* The paths written: the cells of the schema's columns in the parameterized
\* row, and the two entries of the plain row.
WrittenKeys(row) ==
    IF row \in ParamRows THEN Range(COLUMNS(variant)) ELSE {"_value", "_vary"}

TreeNext ==
    \E row \in Rows : \E key \in WrittenKeys(row) : \E value \in InputsOf(key) :
        set_config_val(row, key, value)

(***************************************************************************)
(* set_config_val with a value that is not a number (a str).  The mapping  *)
(* and the param objects keep their numeric content in config and param;   *)
(* nonnumeric names the entries and attributes the str has replaced.       *)
(***************************************************************************)
NonNumericIdle == nonnumeric = [config |-> {}, param |-> {}]

\* The str a caller writes
TextValue == "abc"

\* line 35 for a str value: comparing it with a float raises TypeError;
\* compared with the same str, neither `<` nor `>` holds
CompareRaises(row) ==
    \/ <<row, "min">> \notin nonnumeric.param
    \/ <<row, "max">> \notin nonnumeric.param

\* CalibrationTreeItemModel.set_config_val(path, value) for a str value
set_config_val_nonnumeric(row, key) ==
    LET rec == [CallRecord(row, key, 0) EXCEPT
                    !.op = "set_config_val_nonnumeric", !.value = <<TextValue>>]
        stored == [nonnumeric EXCEPT !.config = @ \cup {<<row, key>>}]
    IN
    /\ emitted' = <<Observe("dict_modified", row, 0, <<>>, config, param)>>
    /\ UNCHANGED <<variant, config, param>>
    /\ IF row \notin DOMAIN param
       THEN \* lines 25-28
            /\ nonnumeric' = stored
            /\ call' = MissingParameter(rec, <<row, "_param">>)
       ELSE IF Attribute(key) = "value" /\ CompareRaises(row)
            THEN \* line 35 raises after the base write of line 22
                 /\ nonnumeric' = stored
                 /\ call' = [rec EXCEPT !.result = "raised",
                                        !.err = <<"TypeError">>]
            ELSE \* line 53
                 /\ nonnumeric' =
                        [stored EXCEPT !.param = @ \cup {<<row, Attribute(key)>>}]
                 /\ call' = rec

(***************************************************************************)
(* data() of the two calibration tree models.  An item is a row of the     *)
(* tree: whether it has child items, and its cells, cells[c] being         *)
(* item.data(c) for the columns c >= 1 of the schema (<<>> is None).  The  *)
(* numbers of the cells are counted in units of 0.0005.                    *)
(***************************************************************************)
\* Largest magnitude of a number in a cell
MaxCell == 3

\* atol = 1e-3, in units of 0.0005
ATOL == 2

\* _tree_columns_to_indices: COLUMN_INDICES['Value'], the same in both models
VALUE_IDX == IndexOf(COLUMNS("Default"), "_value") + 1

\* DefaultCalibrationTreeItemModel.MIN_IDX and MAX_IDX
MIN_IDX == IndexOf(COLUMNS("Default"), "_min") + 1

MAX_IDX == IndexOf(COLUMNS("Default"), "_max") + 1

\* DeltaCalibrationTreeItemModel.DELTA_IDX
DELTA_IDX == IndexOf(COLUMNS("Delta"), "_delta") + 1

BOUND_INDICES(v) ==
    IF v = "Default" THEN {VALUE_IDX, MAX_IDX, MIN_IDX}
                     ELSE {VALUE_IDX, DELTA_IDX}

Abs(x) == IF x < 0 THEN 0 - x ELSE x

Roles == {"DisplayRole", "ForegroundRole"}

\* The base model's data(): the cell is not coloured.
BaseData(item, column, role) == "base"

\* lines 78-87 with the tolerance itself counted as a hit
HitsBound_inclusive(item, column) ==
    \E pair \in {<<VALUE_IDX, MAX_IDX>>, <<VALUE_IDX, MIN_IDX>>} :
        /\ column \in {pair[1], pair[2]}
        /\ Abs(item.cells[pair[1]][1] - item.cells[pair[2]][1]) <= ATOL

\* lines 78-87: some pair the column belongs to is closer than atol
HitsBound(item, column) ==
    \E pair \in {<<VALUE_IDX, MAX_IDX>>, <<VALUE_IDX, MIN_IDX>>} :
        /\ column \in {pair[1], pair[2]}
        /\ Abs(item.cells[pair[1]][1] - item.cells[pair[2]][1]) < ATOL

\* lines 72-89 without the test of item.child_items
DefaultData_anyrow(item, column, role) ==
    IF /\ role = "ForegroundRole" /\ column \in BOUND_INDICES("Default")
       /\ item.cells[VALUE_IDX] # <<>>
       /\ HitsBound(item, column)
    THEN "red"
    ELSE BaseData(item, column, role)

\* DefaultCalibrationTreeItemModel.data(index, role)
DefaultData(item, column, role) ==
    IF /\ role = "ForegroundRole" /\ column \in BOUND_INDICES("Default")
       /\ ~item.child_items /\ item.cells[VALUE_IDX] # <<>>
       /\ HitsBound(item, column)
    THEN "red"
    ELSE BaseData(item, column, role)

\* line 111 without abs()
DeltaIsZero_signed(item) == item.cells[DELTA_IDX][1] < ATOL

\* line 111: abs(item.data(self.DELTA_IDX)) < atol
DeltaIsZero(item) == Abs(item.cells[DELTA_IDX][1]) < ATOL

\* DeltaCalibrationTreeItemModel.data(index, role)
DeltaData(item, column, role) ==
    IF /\ role = "ForegroundRole" /\ column \in BOUND_INDICES("Delta")
       /\ ~item.child_items /\ item.cells[VALUE_IDX] # <<>>
       /\ DeltaIsZero(item)
    THEN "red"
    ELSE BaseData(item, column, role)

CellVals == (0 - MaxCell)..MaxCell

\* The rows of a tree: interior or leaf, the Value cell None or a number, the
\* bound cells numbers
Items(v) ==
    IF v = "Default"
    THEN {[child_items |-> c, cells |-> <<x, <<b>>, <<lo>>, <<hi>>>>] :
            c \in BOOLEAN, x \in {<<>>} \cup {<<n>> : n \in 0..MaxCell},
            b \in BOOLEAN, lo \in 0..MaxCell, hi \in 0..MaxCell}
    ELSE {[child_items |-> c, cells |-> <<x, <<b>>, <<d>>>>] :
            c \in BOOLEAN, x \in {<<>>} \cup {<<n>> : n \in 0..MaxCell},
            b \in BOOLEAN, d \in CellVals}

DataIdle ==
    dataq = [variant |-> "Default",
             item |-> [child_items |-> TRUE, cells |-> <<<<>>, <<>>, <<>>, <<>>>>],
             column |-> 0, role |-> "DisplayRole", result |-> "none"]

DataInit ==
    \E v \in Variants : \E it \in Items(v) :
        dataq = [variant |-> v, item |-> it, column |-> 0,
                 role |-> "DisplayRole", result |-> "none"]

\* model.data(index, role) for the index of a cell of the item
data(column, role) ==
    /\ dataq' = [dataq EXCEPT
                    !.column = column, !.role = role,
                    !.result = IF dataq.variant = "Default"
                               THEN DefaultData(dataq.item, column, role)
                               ELSE DeltaData(dataq.item, column, role)]

DataNext ==
    \E column \in 0..Len(COLUMNS(dataq.variant)) : \E role \in Roles :
        data(column, role)

(***************************************************************************)
(* FitGrainsToleranceModel                                                 *)
(* (src/hexrd/ui/indexing/fit_grains_tolerances_model.py).  Rows and       *)
(* columns are counted from 0 as in the program; a list is a sequence.     *)
(***************************************************************************)
\* Largest number of rows the model grows to by add_row
MaxRows == 3

\* Largest number of rows of a mapping given to update_from_config
MaxConfigRows == 1

\* The tolerances stored: 0.0 (what add_row appends) and one other float
TolVals == {0, 1}

Min2(a, b) == IF a < b THEN a ELSE b

Max2(a, b) == IF a > b THEN a ELSE b

\* The position a Python slice bound k denotes in a list of length n
PyBound(n, k) == IF k < 0 THEN Max2(n + k, 0) ELSE Min2(k, n)

\* data[lo:hi]
PySlice(xs, lo, hi) ==
    SubSeq(xs, PyBound(Len(xs), lo) + 1, PyBound(Len(xs), hi))

\* data[:k]
PySliceTo(xs, k) == SubSeq(xs, 1, PyBound(Len(xs), k))

\* data[k:]
PySliceFrom(xs, k) == SubSeq(xs, PyBound(Len(xs), k) + 1, Len(xs))

\* del data[row] leaving the list as it was
PyDel_keep(xs, row) == SubSeq(xs, 1, row) \o SubSeq(xs, row + 1, Len(xs))

\* del data[row]
PyDel(xs, row) == SubSeq(xs, 1, row) \o SubSeq(xs, row + 2, Len(xs))

\* The three lists as one value
Lists(tth, eta, omega) == [tth |-> tth, eta |-> eta, omega |-> omega]

Current == Lists(tth_tolerances, eta_tolerances, omega_tolerances)

\* lines 69-75: data_columns[column]
data_columns(lists, column) ==
    CASE column = 0 -> lists.tth
      [] column = 1 -> lists.eta
      [] column = 2 -> lists.omega

\* lines 62-65
rowCount(lists, parentIsValid) ==
    IF parentIsValid THEN 0 ELSE Len(lists.tth)

\* lines 20-21
columnCount == 3

\* lines 23-35: <<>> is None
FitData(lists, row, column, role) ==
    IF role \notin {"DisplayRole", "EditRole"} THEN <<>>
    ELSE IF row < 0 \/ row >= Len(lists.tth) THEN <<>>
    ELSE IF column < 0 \/ column >= 3 THEN <<>>
    ELSE <<data_columns(lists, column)[row + 1]>>

\* A notification and the lists as a view reads them when it is emitted
Event(ev, first, last, dest, lists) ==
    [ev |-> ev, first |-> first, last |-> last, dest |-> dest, view |-> lists]

NoConfig == Lists(<<>>, <<>>, <<>>)

NoInput == [kind |-> "none", v |-> 0]

NoFitCall ==
    [op |-> "none", first |-> 0, last |-> 0, delta |-> 0, row |-> 0,
     column |-> 0, input |-> NoInput, config |-> NoConfig,
     result |-> "none", old |-> NoConfig]

FitCall(op) == [NoFitCall EXCEPT !.op = op, !.result = "ok", !.old = Current]

\* lines 12-16
FitInit ==
    /\ tth_tolerances = <<>>
    /\ eta_tolerances = <<>>
    /\ omega_tolerances = <<>>
    /\ fitlog = <<>>
    /\ fitcall = NoFitCall

SetLists(lists) ==
    /\ tth_tolerances' = lists.tth
    /\ eta_tolerances' = lists.eta
    /\ omega_tolerances' = lists.omega

\* lines 79-84, 89-95, 107-116 with the lists changed before the begin
\* notification
StructuralTrace_unbracketed(begin, first, last, dest, end, old, new) ==
    <<Event(begin, first, last, dest, new),
      Event(end, 0, 0, 0, new),
      Event("data_modified", 0, 0, 0, new)>>

\* lines 79-84, 89-95, 107-116: the notifications of a structural mutation,
\* each with the lists as they are when it is emitted
StructuralTrace(begin, first, last, dest, end, old, new) ==
    <<Event(begin, first, last, dest, old),
      Event(end, 0, 0, 0, new),
      Event("data_modified", 0, 0, 0, new)>>

\* lines 77-84
add_row ==
    LET new_row == rowCount(Current, FALSE)
        new == Lists(Append(tth_tolerances, 0), Append(eta_tolerances, 0),
                     Append(omega_tolerances, 0))
    IN
    /\ Len(tth_tolerances) < MaxRows
    /\ SetLists(new)
    /\ fitlog' = StructuralTrace("beginInsertRows", new_row, new_row, 0,
                                  "endInsertRows", Current, new)
    /\ fitcall' = FitCall("add_row")

\* lines 90-93 for one list: del data[row] for row = last down to first
RECURSIVE DeletedList(_, _, _)
DeletedList(xs, first, row) ==
    IF row < first THEN xs
    ELSE DeletedList(PyDel(xs, row), first, row - 1)

\* lines 86-95, rows being the rows first..last
delete_rows(first, last) ==
    LET new == Lists(DeletedList(tth_tolerances, first, last),
                     DeletedList(eta_tolerances, first, last),
                     DeletedList(omega_tolerances, first, last))
    IN
    /\ SetLists(new)
    /\ fitlog' = StructuralTrace("beginRemoveRows", first, last, 0,
                                  "endRemoveRows", Current, new)
    /\ fitcall' = [FitCall("delete_rows") EXCEPT !.first = first, !.last = last]

\* lines 110-114 with the remaining rows cut one row too late
MovedList_drop(xs, first, last, destination) ==
    LET moving_section == PySlice(xs, first, last + 1)
        remaining_list == PySliceTo(xs, first) \o PySliceFrom(xs, last + 1)
        first_section  == PySliceTo(remaining_list, destination)
        last_section   == PySliceFrom(remaining_list, destination + 1)
    IN first_section \o moving_section \o last_section

\* lines 110-114 for one list
MovedList(xs, first, last, destination) ==
    LET moving_section == PySlice(xs, first, last + 1)
        remaining_list == PySliceTo(xs, first) \o PySliceFrom(xs, last + 1)
        first_section  == PySliceTo(remaining_list, destination)
        last_section   == PySliceFrom(remaining_list, destination)
    IN first_section \o moving_section \o last_section

\* lines 104-108: the destinationChild given to beginMoveRows
DestinationChild(first, delta) ==
    LET destination == first + delta
        offset == IF delta > 0 THEN 1 ELSE 0
    IN destination + offset

\* lines 97-116, rows being the rows first..last
move_rows(first, last, delta) ==
    LET destination == first + delta
        new == Lists(MovedList(tth_tolerances, first, last, destination),
                     MovedList(eta_tolerances, first, last, destination),
                     MovedList(omega_tolerances, first, last, destination))
    IN
    /\ SetLists(new)
    /\ fitlog' = StructuralTrace("beginMoveRows", first, last,
                                  DestinationChild(first, delta),
                                  "endMoveRows", Current, new)
    /\ fitcall' = [FitCall("move_rows") EXCEPT
                      !.first = first, !.last = last, !.delta = delta]

\* The values given to setData: a float, a str that reads as a float, a str
\* that does not, and None
FitInputs ==
    {[kind |-> k, v |-> n] : k \in {"float", "str"}, n \in TolVals}
    \cup {[kind |-> "badstr", v |-> 0], NoInput}

\* line 40: float(value) raises ValueError for a str that is not a number and
\* TypeError for None
FloatOf(input) ==
    CASE input.kind \in {"float", "str"} -> [raises |-> "no", v |-> input.v]
      [] input.kind = "badstr" -> [raises |-> "ValueError", v |-> 0]
      [] input.kind = "none" -> [raises |-> "TypeError", v |-> 0]

\* line 46: data_columns[column][row] = value
StoredCell(lists, row, column, value) ==
    CASE column = 0 -> [lists EXCEPT !.tth[row + 1] = value]
      [] column = 1 -> [lists EXCEPT !.eta[row + 1] = value]
      [] column = 2 -> [lists EXCEPT !.omega[row + 1] = value]

\* lines 37-49
setData(row, column, input) ==
    LET f == FloatOf(input)
        rec == [FitCall("setData") EXCEPT
                   !.row = row, !.column = column, !.input = input]
    IN
    IF f.raises = "ValueError"
    THEN /\ fitcall' = [rec EXCEPT !.result = "False"]
         /\ fitlog' = <<>>
         /\ UNCHANGED <<tth_tolerances, eta_tolerances, omega_tolerances>>
    ELSE IF f.raises = "TypeError"
    THEN /\ fitcall' = [rec EXCEPT !.result = "TypeError"]
         /\ fitlog' = <<>>
         /\ UNCHANGED <<tth_tolerances, eta_tolerances, omega_tolerances>>
    ELSE LET new == StoredCell(Current, row, column, f.v) IN
         /\ SetLists(new)
         /\ fitlog' = <<Event("data_modified", 0, 0, 0, new)>>
         /\ fitcall' = [rec EXCEPT !.result = "True"]

\* The mappings given to update_from_config: three lists of one length
RECURSIVE SeqsOf(_, _)
SeqsOf(S, n) ==
    IF n = 0 THEN {<<>>}
    ELSE {Append(q, x) : q \in SeqsOf(S, n - 1), x \in S}

Configs ==
    UNION {{Lists(t, e, o) : t \in SeqsOf(TolVals, n), e \in SeqsOf(TolVals, n),
                             o \in SeqsOf(TolVals, n)} : n \in 0..MaxConfigRows}

\* lines 131-133 with eta read from the key of tth
UpdatedLists_copied(mapping) == Lists(mapping.tth, mapping.tth, mapping.omega)

\* lines 131-133: the lists after the three assignments
UpdatedLists(mapping) == Lists(mapping.tth, mapping.eta, mapping.omega)

\* lines 129-137 with endResetModel emitted before the last assignment
ResetTrace_early(old, mapping) ==
    <<Event("beginResetModel", 0, 0, 0, old),
      Event("endResetModel", 0, 0, 0, Lists(mapping.tth, mapping.eta, old.omega)),
      Event("data_modified", 0, 0, 0, UpdatedLists(mapping))>>

\* lines 129-137: the notifications of update_from_config, each with the
\* lists as they are when it is emitted
ResetTrace(old, mapping) ==
    <<Event("beginResetModel", 0, 0, 0, old),
      Event("endResetModel", 0, 0, 0, UpdatedLists(mapping)),
      Event("data_modified", 0, 0, 0, UpdatedLists(mapping))>>

\* lines 125-137
update_from_config(mapping) ==
    /\ SetLists(UpdatedLists(mapping))
    /\ fitlog' = ResetTrace(Current, mapping)
    /\ fitcall' = [FitCall("update_from_config") EXCEPT !.config = mapping]

\* The selections of rows: the contiguous rows first..last of the model
Selections ==
    {<<first, last>> \in (0..(MaxRows - 1)) \X (0..(MaxRows - 1)) :
        first <= last /\ last < Len(tth_tolerances)}

\* The call has returned to the event loop: its record and notifications are
\* dropped, the lists stay
fit_return ==
    /\ fitcall.op # "none"
    /\ fitcall' = NoFitCall
    /\ fitlog' = <<>>
    /\ UNCHANGED <<tth_tolerances, eta_tolerances, omega_tolerances>>

\* One call at a time, on the UI thread
FitNext ==
    \/ /\ fitcall.op = "none"
       /\ \/ add_row
          \/ \E sel \in Selections : delete_rows(sel[1], sel[2])
          \/ \E sel \in Selections : \E delta \in (0 - MaxRows)..MaxRows :
                move_rows(sel[1], sel[2], delta)
          \/ \E row \in 0..(Len(tth_tolerances) - 1) : \E column \in 0..2 :
             \E input \in FitInputs :
                setData(row, column, input)
          \/ \E mapping \in Configs : update_from_config(mapping)
    \/ fit_return

(***************************************************************************)
(* BlitManager (src/hexrdgui/blit_manager.py).  The artists collection is  *)
(* a tree: a dict maps keys to artists, dicts or lists; a list holds       *)
(* artists.  Every node is a record of one shape; None is <<>>.            *)
(***************************************************************************)
\* Number of Artist objects there are to track
MaxArtists == 3

\* Longest path given to remove_artists
MaxPath == 3

\* Number of times the background is captured
MaxCaptures == 2

\* Longest list stored in the collection
MaxList == 2

Keys_ == <<"a", "b">>

KeySet == Range(Keys_)

ArtistIds == 1..MaxArtists

Absent == [kind |-> "absent", id |-> 0, entries |-> <<>>, items |-> <<>>]

ArtistNode(i) == [kind |-> "artist", id |-> i, entries |-> <<>>, items |-> <<>>]

DictNode(f) == [kind |-> "dict", id |-> 0, entries |-> f, items |-> <<>>]

ListNode(q) == [kind |-> "list", id |-> 0, entries |-> <<>>, items |-> q]

\* line 23: self.artists = {}
EmptyDict == DictNode([k \in KeySet |-> Absent])

\* dict.values() in the order of the keys
ValuesOf(d) ==
    LET present(i) == d.entries[Keys_[i]].kind # "absent"
        F[i \in 0..Len(Keys_)] ==
            IF i = 0 THEN <<>>
            ELSE IF present(i) THEN Append(F[i - 1], d.entries[Keys_[i]])
            ELSE F[i - 1]
    IN F[Len(Keys_)]

\* lines 95-103: the artists yielded, in order.  An argument that is neither
\* a dict nor a sequence (a single Artist) yields nothing.
RECURSIVE recursive_yield_artists(_)
recursive_yield_artists(x) ==
    LET RECURSIVE each(_)
        each(vs) ==
            IF vs = <<>> THEN <<>>
            ELSE (IF Head(vs).kind = "artist" THEN <<Head(vs).id>>
                  ELSE recursive_yield_artists(Head(vs)))
                 \o each(Tail(vs))
    IN CASE x.kind = "dict" -> each(ValuesOf(x))
         [] x.kind = "list" -> each(x.items)
         [] OTHER -> <<>>

\* The artists tracked in the collection
Tracked(root) == Range(recursive_yield_artists(root))

\* line 54: `key not in d`.  A dict is searched for the key, a list for a
\* value equal to the key (a str equals no Artist), and an Artist is not
\* iterable.
KeyNotIn(key, d) ==
    CASE d.kind = "dict" -> IF d.entries[key].kind = "absent" THEN "True"
                            ELSE "False"
      [] d.kind = "list" -> "True"
      [] OTHER -> "TypeError"

\* lines 51-59 going on to the next key at an absent key
RECURSIVE Walk_skip(_, _, _, _)
Walk_skip(d, path, i, at) ==
    IF i > Len(path) THEN [status |-> "found", d |-> d, at |-> at]
    ELSE IF KeyNotIn(path[i], d) = "TypeError"
         THEN [status |-> "TypeError", d |-> Absent, at |-> at]
    ELSE IF KeyNotIn(path[i], d) = "True"
         THEN Walk_skip(d, path, i + 1, at)
    ELSE Walk_skip(d.entries[path[i]], path, i + 1, Append(at, path[i]))

\* lines 51-59: the loop over the keys of the path from key i on.  `at` is
\* the keys followed so far: d is parent[key] for the last of them, and
\* parent is None when there is none.
RECURSIVE Walk(_, _, _, _)
Walk(d, path, i, at) ==
    IF i > Len(path) THEN [status |-> "found", d |-> d, at |-> at]
    ELSE IF KeyNotIn(path[i], d) = "TypeError"
         THEN [status |-> "TypeError", d |-> Absent, at |-> at]
    ELSE IF KeyNotIn(path[i], d) = "True"
         THEN [status |-> "absent", d |-> Absent, at |-> at]
    ELSE Walk(d.entries[path[i]], path, i + 1, Append(at, path[i]))

\* line 65: del parent[key], parent being the dict at the path without its
\* last key and key the last key followed
RECURSIVE DelAt(_, _)
DelAt(root, path) ==
    IF Len(path) = 1 THEN [root EXCEPT !.entries[path[1]] = Absent]
    ELSE [root EXCEPT !.entries[path[1]] = DelAt(@, Tail(path))]

\* A call made on the canvas, the figure or an artist
Did(ev, id) == [ev |-> ev, id |-> id]

\* The calls of one kind on each artist of a sequence
Each(ev, ids) == [i \in DOMAIN ids |-> Did(ev, ids[i])]

NoBlitCall ==
    [op |-> "none", path |-> <<>>, result |-> "none", old |-> EmptyDict,
     oldbg |-> <<>>, oldcid |-> <<>>, oldfigure |-> {}]

BlitCall(op) ==
    [NoBlitCall EXCEPT !.op = op, !.result = "ok", !.old = artists,
                       !.oldbg = bg, !.oldcid = cid, !.oldfigure = figure]

\* lines 7-26
BlitInit ==
    /\ artists = EmptyDict
    /\ bg = <<>>
    /\ cid = <<1>>
    /\ figure = {}
    /\ blitlog = <<>>
    /\ blitcall = NoBlitCall

\* The attributes of a BlitManager: those __init__ sets and the methods of
\* the class
Attributes ==
    {"canvas", "bg", "artists", "cid", "disconnect", "on_draw",
     "remove_artists", "draw_all_artists", "update"}

\* lines 49-67
remove_artists(path) ==
    LET w == Walk(artists, path, 1, <<>>)
        removed == recursive_yield_artists(w.d)
    IN
    /\ blitcall' = [BlitCall("remove_artists") EXCEPT
                       !.path = path,
                       !.result = IF w.status = "TypeError" THEN "TypeError"
                                  ELSE "ok"]
    /\ IF w.status # "found"
       THEN /\ blitlog' = <<>>
            /\ UNCHANGED <<artists, figure>>
       ELSE /\ blitlog' = Each("remove", removed)
            /\ figure' = figure \ Range(removed)
            /\ artists' = IF w.at # <<>> THEN DelAt(artists, w.at)
                          ELSE EmptyDict
    /\ UNCHANGED <<bg, cid>>

\* lines 69-73
draw_all_artists(root) == Each("draw_artist", recursive_yield_artists(root))

\* The region copy_from_bbox returns: one that differs from the cached one
Captured == IF bg = <<>> THEN <<1>> ELSE <<bg[1] + 1>>

\* lines 46-47 with the artists drawn before the background is copied
OnDrawTrace_drawfirst == draw_all_artists(artists) \o <<Did("copy_from_bbox", 0)>>

\* lines 46-47
OnDrawTrace == <<Did("copy_from_bbox", 0)>> \o draw_all_artists(artists)

\* lines 35-47 as the callback of draw_event
on_draw(sameCanvas) ==
    /\ cid # <<>>
    /\ IF ~sameCanvas
       THEN /\ blitcall' = [BlitCall("on_draw") EXCEPT !.result = "RuntimeError"]
            /\ blitlog' = <<>>
            /\ UNCHANGED bg
       ELSE /\ Captured[1] <= MaxCaptures
            /\ blitcall' = BlitCall("on_draw")
            /\ bg' = Captured
            /\ blitlog' = OnDrawTrace
    /\ UNCHANGED <<artists, cid, figure>>

\* lines 75-92
update ==
    /\ blitcall' = BlitCall("update")
    /\ IF bg = <<>>
       THEN /\ bg' = Captured
            /\ blitlog' = OnDrawTrace \o <<Did("flush_events", 0)>>
       ELSE /\ UNCHANGED bg
            /\ blitlog' = <<Did("restore_region", bg[1])>>
                          \o draw_all_artists(artists)
                          \o <<Did("blit", 0), Did("flush_events", 0)>>
    /\ UNCHANGED <<artists, cid, figure>>

\* lines 28-33: the lookup of an attribute the object does not have raises
\* AttributeError
disconnect ==
    IF "remove_all_artists" \notin Attributes
    THEN /\ blitcall' = [BlitCall("disconnect") EXCEPT !.result = "AttributeError"]
         /\ blitlog' = <<>>
         /\ UNCHANGED <<artists, bg, cid, figure>>
    ELSE IF cid # <<>> /\ "mpl_disconnect" \notin Attributes
    THEN /\ blitcall' = [BlitCall("disconnect") EXCEPT !.result = "AttributeError"]
         /\ blitlog' = Each("remove", recursive_yield_artists(artists))
         /\ artists' = EmptyDict
         /\ figure' = figure \ Tracked(artists)
         /\ UNCHANGED <<bg, cid>>
    ELSE /\ blitcall' = BlitCall("disconnect")
         /\ blitlog' = Each("remove", recursive_yield_artists(artists))
                       \o (IF cid # <<>> THEN <<Did("mpl_disconnect", cid[1])>>
                           ELSE <<>>)
         /\ artists' = EmptyDict
         /\ figure' = figure \ Tracked(artists)
         /\ cid' = <<>>
         /\ UNCHANGED bg

\* The artists not attached to the figure
Free == ArtistIds \ figure

\* The sequences of distinct artists of a set, up to a length
RECURSIVE DistinctSeqs(_, _)
DistinctSeqs(S, n) ==
    IF n = 0 THEN {<<>>}
    ELSE DistinctSeqs(S, n - 1)
         \cup {Append(q, x) : q \in {r \in DistinctSeqs(S, n - 1) : Len(r) = n - 1},
                              x \in S}

\* lines 20-23: what owners of the manager store under a key: an artist, a
\* dict of artists or a list of artists, each artist new on the figure
NewNodes ==
    {ArtistNode(i) : i \in Free}
    \cup {DictNode(f) : f \in {g \in [KeySet -> {Absent} \cup {ArtistNode(i) : i \in Free}] :
                                 \A k1, k2 \in KeySet :
                                    (k1 # k2 /\ g[k1].kind = "artist")
                                    => g[k1] # g[k2]}}
    \cup {ListNode([j \in DOMAIN q |-> ArtistNode(q[j])]) :
             q \in {r \in DistinctSeqs(Free, MaxList) :
                      \A i, j \in DOMAIN r : i # j => r[i] # r[j]}}

\* lines 20-23: an owner stores a node under a key that is not in use
track(key, node) ==
    /\ artists.entries[key].kind = "absent"
    /\ artists' = [artists EXCEPT !.entries[key] = node]
    /\ figure' = figure \cup Tracked(node) \cup
                 (IF node.kind = "artist" THEN {node.id} ELSE {})
    /\ blitcall' = [BlitCall("track") EXCEPT !.path = <<key>>]
    /\ blitlog' = <<>>
    /\ UNCHANGED <<bg, cid>>

\* The paths given to remove_artists
RECURSIVE PathsOf(_)
PathsOf(n) ==
    IF n = 0 THEN {<<>>}
    ELSE PathsOf(n - 1)
         \cup {Append(q, k) : q \in {r \in PathsOf(n - 1) : Len(r) = n - 1},
                              k \in KeySet}

\* The call has returned to the event loop
blit_return ==
    /\ blitcall.op # "none"
    /\ blitcall' = NoBlitCall
    /\ blitlog' = <<>>
    /\ UNCHANGED <<artists, bg, cid, figure>>

\* One call at a time, on the UI thread
BlitNext ==
    \/ /\ blitcall.op = "none"
       /\ \/ \E key \in KeySet : \E node \in NewNodes : track(key, node)
          \/ \E path \in PathsOf(MaxPath) : remove_artists(path)
          \/ \E sameCanvas \in BOOLEAN : on_draw(sameCanvas)
          \/ update
          \/ disconnect
    \/ blit_return

(***************************************************************************)
(* HEDMCalibrationRunner                                                   *)
(* (src/hexrd/ui/calibration/hedm/calibration_runner.py).  Each handler    *)
(* runs to its end on the UI thread; a modal dialog (exec_) is answered    *)
(* within the handler that shows it.  None is <<>>.                        *)
(***************************************************************************)
\* Number of times run() is called
MaxRuns == 2

NoRunCall ==
    [op |-> "none", accept1 |-> FALSE, accept2 |-> FALSE, omegas_ok |-> FALSE,
     result |-> "none", oldresults |-> <<>>]

RunCall(op) ==
    [NoRunCall EXCEPT !.op = op, !.result = "ok", !.oldresults = runner.results]

\* lines 28-36
RunnerInit ==
    /\ runner = [pc |-> "idle", runs |-> 0, results |-> <<>>,
                 select_grains_dialog |-> FALSE, options_dialog |-> FALSE,
                 do_refit |-> FALSE, clobber_strain |-> FALSE,
                 clobber_centroid |-> FALSE, clobber_grain_Y |-> FALSE]
    /\ runlog = <<>>
    /\ runcall = NoRunCall

\* lines 38-48
clear(r) ==
    [r EXCEPT !.select_grains_dialog = FALSE, !.options_dialog = FALSE,
              !.results = <<>>]

\* lines 50-59; pre_validate (lines 526-575) raises for a configuration that
\* is not valid.  No pull_spots is in progress: its progress dialog is modal.
run(valid) ==
    /\ runner.pc # "pulling"
    /\ runner.runs < MaxRuns
    /\ IF ~valid
       THEN /\ runner' = [clear(runner) EXCEPT !.pc = "idle", !.runs = @ + 1]
            /\ runlog' = <<"clear", "pre_validate">>
            /\ runcall' = [RunCall("run") EXCEPT !.result = "Exception"]
       ELSE /\ runner' = [clear(runner) EXCEPT !.pc = "select", !.runs = @ + 1,
                                               !.select_grains_dialog = TRUE]
            /\ runlog' = <<"clear", "pre_validate", "select_grains_dialog">>
            /\ runcall' = RunCall("run")

\* lines 61-72: the select grains dialog was accepted
on_grains_selected ==
    /\ runner.pc = "select"
    /\ runner' = [runner EXCEPT !.pc = "options", !.options_dialog = TRUE]
    /\ runlog' = <<"options_dialog">>
    /\ runcall' = RunCall("on_grains_selected")

\* lines 74-91: the options dialog was accepted; pull_spots is started on the
\* async runner with on_pull_spots_finished as its success callback
on_options_dialog_accepted(do_refit, strain, centroid, grain_Y) ==
    /\ runner.pc = "options"
    /\ runner' = [runner EXCEPT !.pc = "pulling", !.do_refit = do_refit,
                                !.clobber_strain = strain,
                                !.clobber_centroid = centroid,
                                !.clobber_grain_Y = grain_Y]
    /\ runlog' = <<"clobber_refinements", "run_pull_spots">>
    /\ runcall' = RunCall("on_options_dialog_accepted")

\* lines 331-335 and 374-430: on_calibration_finished after results is set
CalibrationFinished ==
    <<"write_results_message", "update_config", "message_box",
      "config_updated", "finished">>

\* lines 93-296 going on after the final results dialog whatever its answer
PullSpotsSteps_noask(do_refit, accept1, omegas_ok, accept2) ==
    <<"initial_guess_dialog">> \o
    (IF ~accept1 THEN <<>>
     ELSE <<"optimize">> \o
          (IF ~do_refit
           THEN <<"final_results_dialog">> \o
                (IF ~accept2 THEN <<>>
                 ELSE <<"set_results">> \o CalibrationFinished)
           ELSE IF ~omegas_ok THEN <<"AssertionError">>
           ELSE <<"refit", "final_results_dialog">> \o
                <<"set_results">> \o CalibrationFinished))

\* lines 93-296: the steps of on_pull_spots_finished.  accept1 and accept2 are
\* the answers to the two results dialogs, omegas_ok the assertion of line 218
PullSpotsSteps(do_refit, accept1, omegas_ok, accept2) ==
    <<"initial_guess_dialog">> \o
    (IF ~accept1 THEN <<>>
     ELSE <<"optimize">> \o
          (IF ~do_refit
           THEN <<"final_results_dialog">> \o
                (IF ~accept2 THEN <<>>
                 ELSE <<"set_results">> \o CalibrationFinished)
           ELSE IF ~omegas_ok THEN <<"AssertionError">>
           ELSE <<"refit", "final_results_dialog">> \o
                (IF ~accept2 THEN <<>>
                 ELSE <<"set_results">> \o CalibrationFinished)))

\* lines 93-296
on_pull_spots_finished(accept1, omegas_ok, accept2) ==
    LET steps == PullSpotsSteps(runner.do_refit, accept1, omegas_ok, accept2)
        params == IF runner.do_refit THEN "refit" ELSE "optimized"
    IN
    /\ runner.pc = "pulling"
    /\ runner' = [runner EXCEPT
                    !.pc = "idle",
                    !.results = IF "set_results" \in Range(steps)
                                THEN <<params>> ELSE @]
    /\ runlog' = steps
    /\ runcall' = [RunCall("on_pull_spots_finished") EXCEPT
                      !.accept1 = accept1, !.accept2 = accept2,
                      !.omegas_ok = omegas_ok,
                      !.result = IF "AssertionError" \in Range(steps)
                                 THEN "AssertionError" ELSE "ok"]

RunnerNext ==
    \/ \E valid \in BOOLEAN : run(valid)
    \/ on_grains_selected
    \/ \E do_refit, strain, centroid, grain_Y \in BOOLEAN :
          on_options_dialog_accepted(do_refit, strain, centroid, grain_Y)
    \/ \E accept1, omegas_ok, accept2 \in BOOLEAN :
          on_pull_spots_finished(accept1, omegas_ok, accept2)

\* The tree of the specifications that leave the calibration tree model alone
TreeIdle ==
    /\ variant = "Default"
    /\ param = [r \in ParamRows |->
                  [value |-> 0, min |-> 0, max |-> 0, vary |-> FALSE,
                   delta |-> <<>>]]
    /\ config = [r \in Rows |->
                   IF r \in ParamRows THEN RowOfParam("Default", param[r])
                                      ELSE PlainRow]
    /\ emitted = <<>>
    /\ call = NoCall

\* The components a specification leaves alone
OthersIdle == BlitInit /\ RunnerInit

Init == TreeInit /\ NonNumericIdle /\ DataIdle /\ FitInit /\ OthersIdle

Next == TreeNext /\ UNCHANGED <<nonnumeric, dataq, fitVars, blitVars, runnerVars>>

Spec == Init /\ [][Next]_vars

\* Writes of a str to the numeric paths of the calibration tree model
NonNumericNext ==
    /\ \E row \in Rows : \E key \in WrittenKeys(row) \cap NumericSuffixes :
          set_config_val_nonnumeric(row, key)
    /\ UNCHANGED <<dataq, fitVars, blitVars, runnerVars>>

SpecNonNumeric == Init /\ [][NonNumericNext]_vars

\* Calls of data() on the rows of a tree
InitData == TreeIdle /\ NonNumericIdle /\ DataInit /\ FitInit /\ OthersIdle

NextData ==
    DataNext /\ UNCHANGED <<treeVars, nonnumeric, fitVars, blitVars, runnerVars>>

SpecData == InitData /\ [][NextData]_vars

\* FitGrainsToleranceModel from its construction
InitFit == TreeIdle /\ NonNumericIdle /\ DataIdle /\ FitInit /\ OthersIdle

NextFit ==
    FitNext /\ UNCHANGED <<treeVars, nonnumeric, dataq, blitVars, runnerVars>>

SpecFit == InitFit /\ [][NextFit]_vars

\* BlitManager from its construction
InitBlit ==
    TreeIdle /\ NonNumericIdle /\ DataIdle /\ FitInit /\ BlitInit /\ RunnerInit

NextBlit ==
    BlitNext /\ UNCHANGED <<treeVars, nonnumeric, dataq, fitVars, runnerVars>>

SpecBlit == InitBlit /\ [][NextBlit]_vars

\* HEDMCalibrationRunner from its construction
InitRunner ==
    TreeIdle /\ NonNumericIdle /\ DataIdle /\ FitInit /\ BlitInit /\ RunnerInit

NextRunner ==
    RunnerNext /\ UNCHANGED <<treeVars, nonnumeric, dataq, fitVars, blitVars>>

SpecRunner == InitRunner /\ [][NextRunner]_vars

(***************************************************************************)
(* Properties of set_config_val.  `call` holds the arguments of the last   *)
(* call and the row as it was before it.                                   *)
(***************************************************************************)
Called == call.op = "set_config_val"

Returned == Called /\ call.result = "ok"

Raised == Called /\ call.result = "raised"

Written == call.value[1]

OldParam == call.oldparam[1]

NewParam == param[call.row]

InOrder(p) == p.min <= p.value /\ p.value <= p.max

ValueWrite == Returned /\ call.key = "_value"

\* The per-cell notifications of the last call
DataChanged == {i \in DOMAIN emitted : emitted[i].sig = "dataChanged"}

\* every suffix entry present in the row equals the param's attribute
Consistent(cfg, p) ==
    \A k \in Suffixes : cfg[k] # <<>> => cfg[k] = GetAttr(p, Attribute(k))

\* C1: after every write min <= value <= max holds on every parameter object.
C1_BoundsInvariant == \A r \in DOMAIN param : InOrder(param[r])

\* C2: a `_value` write of a value within [min, max] leaves the param's min
\* and max and the mapping's `_min` and `_max` entries as they were.
C2_InRangeKeepsBounds ==
    (ValueWrite /\ OldParam.min <= Written /\ Written <= OldParam.max)
    => /\ NewParam.min = OldParam.min
       /\ NewParam.max = OldParam.max
       /\ config[call.row]["_min"] = call.oldconfig["_min"]
       /\ config[call.row]["_max"] = call.oldconfig["_max"]

C2_Witness ==
    /\ ValueWrite
    /\ OldParam.min < Written /\ Written < OldParam.max
    /\ Written # OldParam.value
    /\ NewParam.value = Written

\* C3: a `_value` write of v above the old max, the old state being in order,
\* gives max' = v + (old_max - old_value), min' = v - (old_value - old_min)
\* and min' <= v <= max'.
C3_AboveMaxRecentres ==
    (ValueWrite /\ InOrder(OldParam) /\ Written > OldParam.max)
    => /\ NewParam.max = Written + (OldParam.max - OldParam.value)
       /\ NewParam.min = Written - (OldParam.value - OldParam.min)
       /\ NewParam.min <= Written /\ Written <= NewParam.max

C3_Witness ==
    /\ ValueWrite /\ InOrder(OldParam) /\ Written > OldParam.max
    /\ OldParam.max - OldParam.value # OldParam.value - OldParam.min
    /\ NewParam.max > OldParam.max

\* C4: a `_value` write of v below the old min, the old state being in order,
\* gives max' = v + (old_max - old_value), min' = v - (old_value - old_min)
\* and min' <= v <= max'.
C4_BelowMinRecentres ==
    (ValueWrite /\ InOrder(OldParam) /\ Written < OldParam.min)
    => /\ NewParam.max = Written + (OldParam.max - OldParam.value)
       /\ NewParam.min = Written - (OldParam.value - OldParam.min)
       /\ NewParam.min <= Written /\ Written <= NewParam.max

C4_Witness ==
    /\ ValueWrite /\ InOrder(OldParam) /\ Written < OldParam.min
    /\ OldParam.max - OldParam.value # OldParam.value - OldParam.min
    /\ NewParam.min < OldParam.min

\* C5: if the suffix entries of the row agreed with the param before a call
\* that returns, they agree with it after the call.
C5_MappingMatchesParam ==
    (Returned /\ Consistent(call.oldconfig, OldParam))
    => Consistent(config[call.row], NewParam)

C5_Witness ==
    /\ ValueWrite /\ Consistent(call.oldconfig, OldParam)
    /\ OutOfRange(Written, OldParam)
    /\ config[call.row]["_max"] # call.oldconfig["_max"]
    /\ call.oldconfig["_max"] # <<>>

\* C6: a write under a parent without a `_param` key raises, and the failure
\* carries the path of the missing parameter.
C6_MissingParamRaises ==
    (Called /\ call.row \notin DOMAIN param)
    => (call.result = "raised" /\ call.err = <<call.row, "_param">>)

C6_Witness ==
    /\ Called /\ call.row \notin DOMAIN param
    /\ call.result = "raised" /\ call.key = "_value"

\* C7: a `_vary` write that fails for want of a `_param` key leaves the
\* mapping's entry at that path as it was.
C7_FailedWriteUnmodified ==
    (Raised /\ call.key = "_vary")
    => config[call.row]["_vary"] = call.oldconfig["_vary"]

C9_RoundTrip == Called => config[call.row][call.key] = call.value

C9_Witness ==
    /\ ValueWrite /\ OutOfRange(Written, OldParam)
    /\ config[call.row]["_value"] = <<Written>>
    /\ call.oldconfig["_value"] # <<Written>>

\* C10: an out-of-range `_value` write persists the new min and max to the
\* mapping's `_min` and `_max`, and emits dataChanged for exactly the Minimum
\* and Maximum cells of the row in the Default variant and for no cell in the
\* Delta variant; an in-range write emits no dataChanged.
C10_BoundsPersistedAndNotified ==
    ValueWrite =>
        IF OutOfRange(Written, OldParam)
        THEN /\ config[call.row]["_min"] = <<NewParam.min>>
             /\ config[call.row]["_max"] = <<NewParam.max>>
             /\ NewParam.min = ShiftedMin(Written, OldParam)
             /\ NewParam.max = ShiftedMax(Written, OldParam)
             /\ IF variant = "Default"
                THEN /\ Cardinality(DataChanged) = 2
                     /\ {<<emitted[i].row, emitted[i].col>> : i \in DataChanged}
                          = {<<call.row, MIN_IDX>>, <<call.row, MAX_IDX>>}
                ELSE DataChanged = {}
        ELSE DataChanged = {}

C10_Witness ==
    /\ ValueWrite /\ OutOfRange(Written, OldParam)
    /\ variant = "Default"
    /\ Cardinality(DataChanged) = 2
    /\ config[call.row]["_min"] # call.oldconfig["_min"]

C10_WitnessDelta ==
    /\ ValueWrite /\ OutOfRange(Written, OldParam)
    /\ variant = "Delta"
    /\ DataChanged = {}

\* The keys present in a row of the mapping
Keys(cfg) == {k \in Suffixes : cfg[k] # <<>>}

\* C11: whenever set_config_val emits dict_modified or dataChanged for a
\* parameterized row, the param object's value equals the mapping's `_value`
\* entry at that moment.
C11_NotifiedAfterUpdate ==
    (Called /\ call.row \in DOMAIN param)
    => \A i \in DOMAIN emitted : emitted[i].pv = emitted[i].cv

\* C12: set_config_val leaves the set of keys under the parent path as it was,
\* in both variants and for every write.
C12_KeySetUnchanged ==
    Called => Keys(config[call.row]) = Keys(call.oldconfig)

(***************************************************************************)
(* Properties of data() of the calibration tree models                     *)
(***************************************************************************)
DataCalled == dataq.result # "none"

Flagged == dataq.result = "red"

\* a leaf row with a defined value
LeafWithValue == ~dataq.item.child_items /\ dataq.item.cells[1] # <<>>

\* the numbers of the Value, Minimum and Maximum cells of a Default row, and
\* of the Delta cell of a Delta row
CellValue == dataq.item.cells[1][1]

CellMin == dataq.item.cells[3][1]

CellMax == dataq.item.cells[4][1]

CellDelta == dataq.item.cells[3][1]

Near(a, b) == a - b < ATOL /\ b - a < ATOL

\* C13: Default variant, ForegroundRole, leaf row with a defined value: the
\* Maximum cell is red iff |value - max| < atol, the Minimum cell is red iff
\* |value - min| < atol, the Value cell is red iff one of the two holds.
C13_DefaultColouring ==
    (DataCalled /\ dataq.variant = "Default" /\ dataq.role = "ForegroundRole"
       /\ LeafWithValue)
    => /\ dataq.column = 4 => (Flagged <=> Near(CellValue, CellMax))
       /\ dataq.column = 3 => (Flagged <=> Near(CellValue, CellMin))
       /\ dataq.column = 1 =>
            (Flagged <=> (Near(CellValue, CellMax) \/ Near(CellValue, CellMin)))

C13_Witness ==
    /\ DataCalled /\ dataq.variant = "Default" /\ dataq.role = "ForegroundRole"
    /\ LeafWithValue
    /\ dataq.column = 4 /\ Flagged
    /\ CellValue # CellMax /\ ~Near(CellValue, CellMin)

\* C14: Delta variant, ForegroundRole, leaf row with a defined value: the
\* Value cell and the Delta cell are red iff |delta| < atol.
C14_DeltaColouring ==
    (DataCalled /\ dataq.variant = "Delta" /\ dataq.role = "ForegroundRole"
       /\ LeafWithValue /\ dataq.column \in {1, 3})
    => (Flagged <=> Near(CellDelta, 0))

C14_Witness ==
    /\ DataCalled /\ dataq.variant = "Delta" /\ dataq.role = "ForegroundRole"
    /\ LeafWithValue
    /\ dataq.column = 1 /\ Flagged /\ CellDelta < 0

\* C15: in both variants data() flags no cell of an interior row, no cell of
\* a leaf row whose Value cell is None, and no cell of the Key or Vary column.
C15_NeverFlagged ==
    (DataCalled /\ (\/ dataq.item.child_items
                    \/ dataq.item.cells[1] = <<>>
                    \/ dataq.column \in {0, 2}))
    => ~Flagged

C15_Witness ==
    /\ DataCalled /\ dataq.variant = "Default" /\ dataq.role = "ForegroundRole"
    /\ dataq.item.child_items /\ dataq.item.cells[1] # <<>>
    /\ dataq.column = 1 /\ CellValue = CellMax
    /\ ~Flagged

(***************************************************************************)
(* Properties of FitGrainsToleranceModel                                   *)
(***************************************************************************)
\* C16: update_from_config emits beginResetModel before any list is
\* replaced, endResetModel after all three are replaced and data_modified
\* after endResetModel; no notification sees only some of the lists swapped.
C16_ResetBracketed ==
    fitcall.op = "update_from_config"
    => /\ Len(fitlog) = 3
       /\ fitlog[1].ev = "beginResetModel"
       /\ fitlog[1].view = fitcall.old
       /\ fitlog[2].ev = "endResetModel"
       /\ fitlog[2].view.tth = fitcall.config.tth
       /\ fitlog[2].view.eta = fitcall.config.eta
       /\ fitlog[2].view.omega = fitcall.config.omega
       /\ fitlog[3].ev = "data_modified"
       /\ \A i \in 1..3 : fitlog[i].view \in {fitcall.old, fitcall.config}

C16_Witness ==
    /\ fitcall.op = "update_from_config"
    /\ fitcall.old.tth # fitcall.config.tth
    /\ fitcall.old.eta # fitcall.config.eta
    /\ fitcall.old.omega # fitcall.config.omega
    /\ Len(fitcall.old.tth) > 0 /\ Len(fitcall.config.tth) > 0
    /\ Len(fitlog) = 3

\* C17: after update_from_config rowCount() is the number of rows of the new
\* mapping and every cell data() returns is the new mapping's; beyond its
\* rows data() returns nothing.
C17_ResetReplacesRows ==
    fitcall.op = "update_from_config"
    => /\ rowCount(Current, FALSE) = Len(fitcall.config.tth)
       /\ \A row \in 0..MaxRows : \A column \in 0..2 :
            FitData(Current, row, column, "DisplayRole")
              = IF row < Len(fitcall.config.tth)
                THEN <<data_columns(fitcall.config, column)[row + 1]>>
                ELSE <<>>

C17_Witness ==
    /\ fitcall.op = "update_from_config"
    /\ Len(fitcall.old.tth) > Len(fitcall.config.tth)
    /\ Len(fitcall.config.tth) > 0
    /\ fitcall.config.tth # fitcall.config.eta
    /\ rowCount(Current, FALSE) = Len(fitcall.config.tth)

\* A valid call of move_rows: the block stays within the table and moves
ValidMove ==
    /\ fitcall.op = "move_rows"
    /\ fitcall.delta # 0
    /\ 0 <= fitcall.first + fitcall.delta
    /\ fitcall.last + fitcall.delta < Len(fitcall.old.tth)

\* Qt's rule for a move within one parent: destinationChild is not within
\* sourceFirst..sourceLast+1
LegalQtMove(first, last, dest) == dest < first \/ dest > last + 1

\* The order Qt's views take rows to have after beginMoveRows(first, last,
\* dest): the block is inserted before the row that was at dest
QtMovedList(xs, first, last, dest) ==
    LET n == Len(xs)
        InBlock(i) == first <= i /\ i <= last
        Before(k) == Cardinality({i \in 0..(n - 1) : i < k /\ ~InBlock(i)})
        NewPos(i) == IF InBlock(i) THEN Before(dest) + (i - first)
                     ELSE IF i < dest THEN Before(i)
                     ELSE Before(i) + (last - first + 1)
    IN [j \in 1..n |-> xs[(CHOOSE i \in 0..(n - 1) : NewPos(i) = j - 1) + 1]]

\* C19: for every valid call of move_rows the move given to beginMoveRows is
\* a legal Qt move and describes the order the three lists have afterwards.
C19_MoveAnnounced ==
    ValidMove
    => /\ fitlog[1].ev = "beginMoveRows"
       /\ LegalQtMove(fitlog[1].first, fitlog[1].last, fitlog[1].dest)
       /\ \A column \in 0..2 :
            data_columns(Current, column)
              = QtMovedList(data_columns(fitcall.old, column),
                            fitlog[1].first, fitlog[1].last, fitlog[1].dest)

\* The rows of the table, each the three tolerances of one row
RowsOf(lists) ==
    [i \in 1..Len(lists.tth) |-> <<lists.tth[i], lists.eta[i], lists.omega[i]>>]

\* The rows outside the positions lo..hi (counted from 0), in order
Without(rows, lo, hi) ==
    [j \in 1..(Len(rows) - (hi - lo + 1)) |->
        IF j - 1 < lo THEN rows[j] ELSE rows[j + (hi - lo + 1)]]

Occurrences(rows, t) == Cardinality({i \in DOMAIN rows : rows[i] = t})

\* C20: move_rows permutes the rows, the same way in the three lists, for
\* any delta; a valid move puts the block first..last at first+delta..
\* last+delta and keeps the other rows in their order.
C20_MovePermutes ==
    fitcall.op = "move_rows"
    => /\ Len(tth_tolerances) = Len(fitcall.old.tth)
       /\ Len(eta_tolerances) = Len(fitcall.old.eta)
       /\ Len(omega_tolerances) = Len(fitcall.old.omega)
       /\ \A t \in TolVals \X TolVals \X TolVals :
            Occurrences(RowsOf(Current), t) = Occurrences(RowsOf(fitcall.old), t)
       /\ ValidMove =>
            /\ \A i \in fitcall.first..fitcall.last :
                 RowsOf(Current)[i + fitcall.delta + 1] = RowsOf(fitcall.old)[i + 1]
            /\ Without(RowsOf(Current), fitcall.first + fitcall.delta,
                       fitcall.last + fitcall.delta)
                 = Without(RowsOf(fitcall.old), fitcall.first, fitcall.last)

C20_Witness ==
    /\ ValidMove
    /\ fitcall.first < fitcall.last /\ fitcall.delta > 0
    /\ Current # fitcall.old
    /\ \A i, j \in DOMAIN RowsOf(Current) :
          i # j => RowsOf(Current)[i] # RowsOf(Current)[j]
    /\ tth_tolerances # eta_tolerances /\ eta_tolerances # omega_tolerances

\* C21: the three lists always have one length and rowCount() is that
\* length; add_row appends one row of 0.0 and keeps the rows before it;
\* delete_rows removes the rows first..last and keeps the others in order.
C21_RowsInStep ==
    /\ Len(eta_tolerances) = Len(tth_tolerances)
    /\ Len(omega_tolerances) = Len(tth_tolerances)
    /\ rowCount(Current, FALSE) = Len(tth_tolerances)
    /\ fitcall.op = "add_row" =>
          /\ rowCount(Current, FALSE) = rowCount(fitcall.old, FALSE) + 1
          /\ RowsOf(Current) = Append(RowsOf(fitcall.old), <<0, 0, 0>>)
    /\ fitcall.op = "delete_rows" =>
          /\ rowCount(Current, FALSE)
               = rowCount(fitcall.old, FALSE) - (fitcall.last - fitcall.first + 1)
          /\ RowsOf(Current)
               = Without(RowsOf(fitcall.old), fitcall.first, fitcall.last)

C21_Witness ==
    /\ fitcall.op = "delete_rows"
    /\ fitcall.first > 0 /\ fitcall.first < fitcall.last
    /\ rowCount(fitcall.old, FALSE) = MaxRows
    /\ rowCount(Current, FALSE) = MaxRows - 2
    /\ tth_tolerances # eta_tolerances /\ eta_tolerances # omega_tolerances

\* The begin and end notification of each structural mutation
Bracket ==
    [add_row |-> <<"beginInsertRows", "endInsertRows">>,
     delete_rows |-> <<"beginRemoveRows", "endRemoveRows">>,
     move_rows |-> <<"beginMoveRows", "endMoveRows">>]

\* C22: add_row, delete_rows and move_rows change the lists only between
\* their begin and end notification and emit data_modified once, after the
\* end notification.
C22_MutationBracketed ==
    fitcall.op \in DOMAIN Bracket
    => /\ Len(fitlog) = 3
       /\ fitlog[1].ev = Bracket[fitcall.op][1]
       /\ fitlog[1].view = fitcall.old
       /\ fitlog[2].ev = Bracket[fitcall.op][2]
       /\ fitlog[2].view = Current
       /\ fitlog[3].ev = "data_modified"
       /\ fitlog[3].view = Current
       /\ Cardinality({i \in DOMAIN fitlog : fitlog[i].ev = "data_modified"}) = 1

C22_Witness ==
    /\ fitcall.op = "move_rows"
    /\ Current # fitcall.old
    /\ fitlog[1].view # fitlog[2].view
    /\ fitlog[3].ev = "data_modified"

\* C23: setData returns True with exactly the addressed cell set to
\* float(value) and data_modified emitted once when the value converts to a
\* float; otherwise it returns False, changes no cell and emits nothing.
C23_SetDataStoresFloats ==
    fitcall.op = "setData"
    => IF fitcall.input.kind \in {"float", "str"}
       THEN /\ fitcall.result = "True"
            /\ Current = StoredCell(fitcall.old, fitcall.row, fitcall.column,
                                    fitcall.input.v)
            /\ Len(fitlog) = 1 /\ fitlog[1].ev = "data_modified"
       ELSE /\ fitcall.result = "False"
            /\ Current = fitcall.old
            /\ fitlog = <<>>

(***************************************************************************)
(* Properties of BlitManager.  `blitcall` holds the arguments of the last  *)
(* call and the state before it, `blitlog` the calls it made.              *)
(***************************************************************************)
\* Every key of the path is present: the path leads to an entry
RECURSIVE HasPath(_, _)
HasPath(node, path) ==
    IF path = <<>> THEN TRUE
    ELSE /\ node.kind = "dict"
         /\ node.entries[path[1]].kind # "absent"
         /\ HasPath(node.entries[path[1]], Tail(path))

\* The entry a path leads to
RECURSIVE NodeAt(_, _)
NodeAt(node, path) ==
    IF path = <<>> THEN node ELSE NodeAt(node.entries[path[1]], Tail(path))

IsPrefix(p, q) == Len(p) <= Len(q) /\ SubSeq(q, 1, Len(p)) = p

\* The artists stored at or beneath an entry
ArtistsUnder(node) ==
    IF node.kind = "artist" THEN {node.id} ELSE Tracked(node)

RemoveCalls(id) ==
    {i \in DOMAIN blitlog : blitlog[i] = Did("remove", id)}

RemoveCalled == blitcall.op = "remove_artists"

\* C24: remove_artists with a path of which a key is absent leaves the
\* artists collection unchanged and calls remove() on no artist.
C24_AbsentPathNoOp ==
    (RemoveCalled /\ ~HasPath(blitcall.old, blitcall.path))
    => /\ artists = blitcall.old
       /\ \A i \in DOMAIN blitlog : blitlog[i].ev # "remove"
       /\ figure = blitcall.oldfigure

C24_Witness ==
    /\ RemoveCalled
    /\ Len(blitcall.path) = 2
    /\ HasPath(blitcall.old, <<blitcall.path[1]>>)
    /\ NodeAt(blitcall.old, <<blitcall.path[1]>>).kind = "dict"
    /\ ~HasPath(blitcall.old, blitcall.path)
    /\ Cardinality(Tracked(blitcall.old)) >= 2
    /\ artists = blitcall.old

\* C25: remove_artists with an existing path calls remove() once on every
\* artist stored at or beneath the path and on no other, deletes the entry
\* and leaves every entry outside the path as it was (an empty path empties
\* the collection); no artist leaves the collection while it is still
\* attached to the figure.
C25_RemovesWhatItDrops ==
    (RemoveCalled /\ HasPath(blitcall.old, blitcall.path))
    => /\ \A id \in ArtistIds :
            Cardinality(RemoveCalls(id))
              = IF id \in ArtistsUnder(NodeAt(blitcall.old, blitcall.path))
                THEN 1 ELSE 0
       /\ IF blitcall.path = <<>> THEN artists = EmptyDict
          ELSE /\ ~HasPath(artists, blitcall.path)
               /\ \A q \in PathsOf(MaxPath) :
                    ~IsPrefix(blitcall.path, q)
                    => /\ HasPath(artists, q) <=> HasPath(blitcall.old, q)
                       /\ HasPath(artists, q) /\ ~IsPrefix(q, blitcall.path)
                          => NodeAt(artists, q) = NodeAt(blitcall.old, q)
       /\ \A id \in Tracked(blitcall.old) \ Tracked(artists) : id \notin figure

\* C26: disconnect completes without error; afterwards the collection is
\* empty, the draw_event callback is disconnected and cid is None; when cid
\* is None already nothing is disconnected.
C26_DisconnectCompletes ==
    blitcall.op = "disconnect"
    => /\ blitcall.result = "ok"
       /\ artists = EmptyDict
       /\ cid = <<>>
       /\ blitcall.oldcid # <<>>
          => \E i \in DOMAIN blitlog :
                blitlog[i] = Did("mpl_disconnect", blitcall.oldcid[1])
       /\ (blitcall.oldcid = <<>> /\ blitcall.old = EmptyDict) => blitlog = <<>>

DrawCalls == {i \in DOMAIN blitlog : blitlog[i].ev = "draw_artist"}

\* C27: after update() bg is set and flush_events was called last; with bg
\* set before, the call restores bg, then draws every tracked artist, then
\* blits, and keeps bg; with bg None before, the background is captured
\* before any artist is drawn.
C27_UpdateRedraws ==
    blitcall.op = "update"
    => /\ bg # <<>>
       /\ blitlog # <<>>
       /\ blitlog[Len(blitlog)].ev = "flush_events"
       /\ \A id \in Tracked(artists) :
             \E i \in DrawCalls : blitlog[i].id = id
       /\ IF blitcall.oldbg # <<>>
          THEN /\ bg = blitcall.oldbg
               /\ Len(blitlog) >= 3
               /\ blitlog[1] = Did("restore_region", blitcall.oldbg[1])
               /\ blitlog[Len(blitlog) - 1].ev = "blit"
               /\ DrawCalls = 2..(Len(blitlog) - 2)
          ELSE /\ blitlog[1].ev = "copy_from_bbox"
               /\ DrawCalls = 2..(Len(blitlog) - 1)

C27_Witness ==
    /\ blitcall.op = "update"
    /\ blitcall.oldbg # <<>>
    /\ Cardinality(Tracked(artists)) >= 2
    /\ Cardinality(DrawCalls) >= 2
    /\ bg = blitcall.oldbg

(***************************************************************************)
(* Properties of HEDMCalibrationRunner.  `runcall` holds the last handler  *)
(* and the answers to its dialogs, `runlog` its steps in order.            *)
(***************************************************************************)
\* The positions of a step among the steps of the last handler
StepsAt(step) == {i \in DOMAIN runlog : runlog[i] = step}

\* C28: finished is emitted only by a handler in which both results dialogs
\* were accepted, after results is set and the configuration is updated; when
\* a dialog is rejected results stays None, update_config is not called and
\* finished is not emitted.
C28_FinishedOnlyAfterAccept ==
    /\ StepsAt("finished") # {}
       => /\ runcall.op = "on_pull_spots_finished"
          /\ runcall.accept1 /\ runcall.accept2
          /\ runner.results # <<>>
          /\ \A f \in StepsAt("finished") :
               /\ \E i \in StepsAt("initial_guess_dialog") :
                  \E j \in StepsAt("final_results_dialog") :
                  \E k \in StepsAt("set_results") :
                  \E l \in StepsAt("config_updated") :
                     i < j /\ j < k /\ k < l /\ l < f
    /\ (runcall.op = "on_pull_spots_finished"
        /\ (~runcall.accept1 \/ ~runcall.accept2))
       => /\ runner.results = <<>>
          /\ StepsAt("update_config") = {}
          /\ StepsAt("finished") = {}

C28_Witness ==
    /\ runcall.op = "on_pull_spots_finished"
    /\ runner.do_refit
    /\ runcall.accept1 /\ runcall.accept2
    /\ runner.results # <<>>
    /\ StepsAt("finished") # {}

(***************************************************************************)
(* Properties of set_config_val for a value that is not a number           *)
(***************************************************************************)
\* C18: a write of a non-numeric value to a numeric parameter path fails with
\* an error; it does not return normally.
C18_NonNumericRejected ==
    (call.op = "set_config_val_nonnumeric" /\ call.key \in NumericSuffixes)
    => call.result = "raised"

====
